---- MODULE Spec2Model ----
(***************************************************************************)
(* A model of the Datadis input plugin (plugins/inputs/datadis/datadis.go, *)
(* newest revision: lines 289-622 of the source file).                      *)
(*                                                                         *)
(* Text that the code inspects character by character (dates, times, the   *)
(* request's startDate/endDate) is a sequence of one-character strings;    *)
(* text the code only copies (token, cups, error texts) is a string.       *)
(* Time is in whole seconds since the Unix epoch; the process's local zone *)
(* is UTC.                                                                  *)
(***************************************************************************)
EXTENDS Integers, Sequences, FiniteSets, Bags, TLC

Nil == "nil"

(***************************************************************************)
(* Text helpers                                                            *)
(***************************************************************************)
DigitChars == <<"0", "1", "2", "3", "4", "5", "6", "7", "8", "9">>

isDigit(s, i) == i <= Len(s) /\ \E k \in 1..10 : DigitChars[k] = s[i]

DigitVal(c) == (CHOOSE k \in 1..10 : DigitChars[k] = c) - 1

DropN(s, n) == SubSeq(s, n + 1, Len(s))

\* strings.Index: the first position at which old occurs in s, 0 when none.
Index(s, old) ==
    LET hits == {i \in 1..(Len(s) - Len(old) + 1) :
                    SubSeq(s, i, i + Len(old) - 1) = old}
    IN  IF hits = {} THEN 0 ELSE CHOOSE i \in hits : \A j \in hits : i <= j

\* strings.Replace(s, old, new, 1) for a non-empty old.
Replace1(s, old, new) ==
    LET i == Index(s, old)
    IN  IF i = 0 THEN s
        ELSE SubSeq(s, 1, i - 1) \o new \o DropN(s, i + Len(old) - 1)

\* fmt.Sprintf("%v %v", a, b)
SprintfPair(a, b) == a \o <<" ">> \o b

\* Two decimal digits, zero padded; four for a year.
Pad2(n) == <<DigitChars[((n \div 10) % 10) + 1], DigitChars[(n % 10) + 1]>>

Pad4(n) ==
    <<DigitChars[((n \div 1000) % 10) + 1], DigitChars[((n \div 100) % 10) + 1]>> \o Pad2(n % 100)

(***************************************************************************)
(* Calendar arithmetic of package time (proleptic Gregorian, UTC)          *)
(***************************************************************************)
isLeap(y) == y % 4 = 0 /\ (y % 100 # 0 \/ y % 400 = 0)

daysIn(m, y) ==
    IF m = 2 THEN (IF isLeap(y) THEN 29 ELSE 28)
    ELSE IF m \in {4, 6, 9, 11} THEN 30 ELSE 31

\* Days from 1970-01-01 to the civil date y-m-d.
DaysFromCivil(y, m, dd) ==
    LET yy  == IF m <= 2 THEN y - 1 ELSE y
        era == yy \div 400
        yoe == yy - era * 400
        mp  == IF m > 2 THEN m - 3 ELSE m + 9
        doy == ((153 * mp + 2) \div 5) + dd - 1
        doe == yoe * 365 + (yoe \div 4) - (yoe \div 100) + doy
    IN  era * 146097 + doe - 719468

\* The civil date of a day number: [y, m, d].
CivilFromDays(z0) ==
    LET z   == z0 + 719468
        era == z \div 146097
        doe == z - era * 146097
        yoe == (doe - (doe \div 1460) + (doe \div 36524) - (doe \div 146096)) \div 365
        doy == doe - (365 * yoe + (yoe \div 4) - (yoe \div 100))
        mp  == (5 * doy + 2) \div 153
        dd  == doy - ((153 * mp + 2) \div 5) + 1
        m   == IF mp < 10 THEN mp + 3 ELSE mp - 9
        y   == yoe + era * 400 + (IF m <= 2 THEN 1 ELSE 0)
    IN  [y |-> y, m |-> m, d |-> dd]

SecondsPerDay == 24 * 3600

\* time.Date(y, m, d, hh, mi, 0, 0, time.UTC).Unix()
UnixOf(y, m, dd, hh, mi) == DaysFromCivil(y, m, dd) * SecondsPerDay + hh * 3600 + mi * 60

\* t.Format("2006/01/02") of the instant t (seconds since the epoch).
FormatDate(t) ==
    LET c == CivilFromDays(t \div SecondsPerDay)
    IN  Pad4(c.y) \o <<"/">> \o Pad2(c.m) \o <<"/">> \o Pad2(c.d)

(***************************************************************************)
(* time.Parse("2006/01/02 15:04", value)                                   *)
(***************************************************************************)
ParseFail == [ok |-> FALSE, unix |-> 0]

\* getnum(s, fixed): a one or two digit number (two when fixed) and the rest.
getnum(s, fixed) ==
    IF ~isDigit(s, 1) THEN [ok |-> FALSE, n |-> 0, rest |-> s]
    ELSE IF ~isDigit(s, 2)
         THEN (IF fixed THEN [ok |-> FALSE, n |-> 0, rest |-> s]
               ELSE [ok |-> TRUE, n |-> DigitVal(s[1]), rest |-> DropN(s, 1)])
         ELSE [ok |-> TRUE, n |-> DigitVal(s[1]) * 10 + DigitVal(s[2]), rest |-> DropN(s, 2)]

\* skip(value, prefix) for a one-character literal other than a space.
skipChar(s, c) ==
    IF Len(s) > 0 /\ s[1] = c THEN [ok |-> TRUE, rest |-> DropN(s, 1)]
    ELSE [ok |-> FALSE, rest |-> s]

\* cutspace: s without its leading spaces.
RECURSIVE cutspace(_)
cutspace(s) == IF Len(s) > 0 /\ s[1] = " " THEN cutspace(DropN(s, 1)) ELSE s

\* skip(value, " "): a non-empty value must start with a space; the run of
\* spaces is dropped.
skipSpace(s) ==
    IF Len(s) > 0 /\ s[1] # " " THEN [ok |-> FALSE, rest |-> s]
    ELSE [ok |-> TRUE, rest |-> cutspace(s)]

ParseTime(v) ==
    IF ~(Len(v) >= 4 /\ \A i \in 1..4 : isDigit(v, i)) THEN ParseFail
    ELSE
    LET year == DigitVal(v[1]) * 1000 + DigitVal(v[2]) * 100
                  + DigitVal(v[3]) * 10 + DigitVal(v[4])
        s1 == skipChar(DropN(v, 4), "/")
        mo == getnum(s1.rest, TRUE)
        s2 == skipChar(mo.rest, "/")
        dy == getnum(s2.rest, TRUE)
        s3 == skipSpace(dy.rest)
        hr == getnum(s3.rest, FALSE)
        s4 == skipChar(hr.rest, ":")
        mi == getnum(s4.rest, TRUE)
    IN  IF ~s1.ok \/ ~mo.ok \/ mo.n <= 0 \/ mo.n > 12 THEN ParseFail
        ELSE IF ~s2.ok \/ ~dy.ok THEN ParseFail
        ELSE IF ~s3.ok \/ ~hr.ok \/ hr.n >= 24 THEN ParseFail
        ELSE IF ~s4.ok \/ ~mi.ok \/ mi.n >= 60 THEN ParseFail
        ELSE IF Len(mi.rest) > 0 THEN ParseFail
        ELSE IF dy.n < 1 \/ dy.n > daysIn(mo.n, year) THEN ParseFail
        ELSE [ok |-> TRUE, unix |-> UnixOf(year, mo.n, dy.n, hr.n, mi.n)]

(***************************************************************************)
(* Consumption.timestamp                                                   *)
(***************************************************************************)
\* timestamp without the rewrite of the hour 24 (used to show that C8 rests
\* on the rewrite).
timestamp_NoRewrite(c) == ParseTime(SprintfPair(c.Date, c.Time))

timestamp(c) ==
    ParseTime(SprintfPair(c.Date, Replace1(c.Time, <<"2", "4", ":">>, <<"0", "0", ":">>)))


(***************************************************************************)
(* Bounds of the model                                                     *)
(***************************************************************************)
\* Gather invocations explored, and supplies known to the account.
MaxCycles == 2

MaxSupplies == 2

(***************************************************************************)
(* Program constants and the data the environment can supply               *)
(***************************************************************************)
URL == "https://datadis.es"

D_1228 == <<"2", "0", "2", "1", "/", "1", "2", "/", "2", "8">>

D_START == <<"2", "0", "2", "1", "/", "1", "2", "/", "0", "1">>

D_END == <<"2", "0", "2", "1", "/", "1", "2", "/", "3", "1">>

T_0100 == <<"0", "1", ":", "0", "0">>

T_0000 == <<"0", "0", ":", "0", "0">>

T_2400 == <<"2", "4", ":", "0", "0">>

T_2500 == <<"2", "5", ":", "0", "0">>

\* 2021-12-31 18:00 UTC, and the host's interval between two Gather calls.
Now0 == UnixOf(2021, 12, 31, 18, 0)

GatherInterval == 12 * 3600

HoursOf(h) == h * 3600

CupsOf(i) == "ES" \o ToString(i)

\* A supply as the API lists it (JSON object) or as the configuration gives it.
SupplyJSON(i) == [cups |-> CupsOf(i), pointType |-> 5, distributorCode |-> "2"]

\* json.Decode / TOML into Supply: the keys the struct tags name.
DecodeSupply(o) ==
    [Cups |-> o.cups, PointType |-> o.pointType, DistributorCode |-> o.distributorCode]

\* A []Supply value: Go tells a nil slice from an empty one.
NilSlice == [nil |-> TRUE, items |-> <<>>]

Slice(items) == [nil |-> FALSE, items |-> items]

\* The supply list of the static configuration: ES1 and ES2.
StaticSupplies == Slice([i \in 1..2 |-> DecodeSupply(SupplyJSON(i))])

\* A consumption reading as the API returns it.
ReadingJSON(cups, time, wh) ==
    [cups |-> cups, date |-> D_1228, time |-> time, consumptionKWh |-> wh,
     obtainMethod |-> "Real"]

\* json.Decode into Consumption: KWh is tagged consumptionKWh, the other
\* fields match their keys case-insensitively.
DecodeConsumption(o) ==
    [Cups |-> o.cups, Date |-> o.date, Time |-> o.time, KWh |-> o.consumptionKWh,
     ObtainMethod |-> o.obtainMethod]

\* A JSON body: undecodable text, the value null, or an array of objects.
Garbage == [json |-> "garbage", items |-> <<>>]

JsonNull == [json |-> "null", items |-> <<>>]

JsonArray(items) == [json |-> "array", items |-> items]

\* An HTTP exchange as the client sees it: the transport failed, or a status
\* and a body arrived (readErr: the body could not be read to its end).
Resp(status, body) == [transportErr |-> FALSE, status |-> status, body |-> body, readErr |-> FALSE]

TransportFailure(body) == [transportErr |-> TRUE, status |-> 0, body |-> body, readErr |-> FALSE]

LoginResponses ==
    { TransportFailure(""), Resp(401, "Unauthorized"),
      Resp(200, "t0k3n"), Resp(200, "s3cr3t"),
      [Resp(200, "t0k") EXCEPT !.readErr = TRUE] }

SuppliesResponses ==
    { TransportFailure(Garbage), Resp(500, Garbage), Resp(200, Garbage), Resp(200, JsonNull) }
    \cup { Resp(200, JsonArray([i \in 1..k |-> SupplyJSON(i)])) : k \in 0..MaxSupplies }

ConsumptionResponses(supply) ==
    { TransportFailure(Garbage), Resp(500, Garbage), Resp(200, Garbage),
      Resp(200, JsonArray(<<ReadingJSON(supply.Cups, T_0100, 121)>>)),
      Resp(200, JsonArray(<<ReadingJSON(supply.Cups, T_0000, 105),
                            ReadingJSON(supply.Cups, T_2400, 117)>>)),
      Resp(200, JsonArray(<<ReadingJSON(supply.Cups, T_0100, 121),
                            ReadingJSON(supply.Cups, T_2500, 99)>>)) }

(***************************************************************************)
(* State                                                                   *)
(***************************************************************************)
VARIABLES
    d,            \* the Datadis struct
    now,          \* the wall clock, seconds since the epoch
    pc,           \* where the Gather goroutine is: idle, supplies, fanout, panicked
    cycle,        \* Gather invocations so far
    sent,         \* requests the Gather goroutine sent in this cycle, in order
    loginStatus,  \* status of this cycle's Login response (0: none arrived)
    tasks,        \* the errgroup's goroutines of this cycle, one per supply
    consumptions, \* fetchAllConsumptions' shared slice
    groupErr,     \* errgroup.Group.err
    faRet,        \* what fetchAllConsumptions returned in this cycle
    acc,          \* what the accumulator received in this cycle
    gatherRet,    \* what Gather returned in this cycle
    srvToken,     \* body of the most recent Login response with status 200
    nLogin,       \* Login requests sent so far
    nList,        \* List Supplies requests sent so far
    listOK,       \* body of the latest List Supplies call that returned nil:
                  \* "never" while none has, then "null" or "array"
    cfgStatic,    \* the configuration gave a static supply list
    faults,       \* what went wrong in this cycle: login, supplies, consumption,
                  \* decode, parse
    pin,          \* input of the function under study (SpecTime, SpecFetch)
    pout          \* its output

mainVars == <<d, now, pc, cycle, sent, loginStatus, tasks, consumptions, groupErr,
              faRet, acc, gatherRet, srvToken, nLogin, nList, listOK, cfgStatic, faults>>

vars == <<mainVars, pin, pout>>

NoErr == Nil

\* gatherRet while Gather has not returned.
Running == "running"

EmptyAcc == [metrics |-> <<>>, errors |-> <<>>]

NotReturned == [returned |-> FALSE, data |-> <<>>, err |-> NoErr]

NoInput == [kind |-> "none"]

NoOutput == [done |-> FALSE]


(***************************************************************************)
(* The API client: refreshToken, getSupplies, fetchConsumption             *)
(***************************************************************************)
LoginRequest(dd) ==
    [kind |-> "Login", method |-> "POST", path |-> "/nikola-auth/tokens/login",
     base |-> URL, auth |-> ""]

\* refreshToken: the struct after the call and the error returned.
refreshToken(dd, resp) ==
    IF resp.transportErr THEN [d |-> dd, err |-> "login: transport"]
    ELSE IF resp.status = 200
         THEN (IF resp.readErr THEN [d |-> dd, err |-> "login: read body"]
               ELSE [d |-> [dd EXCEPT !.token = resp.body], err |-> NoErr])
         ELSE [d |-> dd, err |-> "login: status"]

Bearer(token) == "Bearer " \o token

SuppliesRequest(dd) ==
    [kind |-> "ListSupplies", method |-> "GET", path |-> "/api-private/api/get-supplies",
     base |-> URL, auth |-> Bearer(dd.token)]

\* json.NewDecoder(body).Decode(&data) for data []Supply: null leaves the
\* slice nil, an array (an empty one too) gives a non-nil slice.
DecodeSupplies(body) ==
    IF body.json = "garbage" THEN [ok |-> FALSE, data |-> NilSlice]
    ELSE IF body.json = "null" THEN [ok |-> TRUE, data |-> NilSlice]
    ELSE [ok |-> TRUE,
          data |-> Slice([i \in 1..Len(body.items) |-> DecodeSupply(body.items[i])])]

getSupplies(dd, resp) ==
    IF resp.transportErr THEN [d |-> dd, err |-> "supplies: transport"]
    ELSE IF resp.status = 200
         THEN LET dec == DecodeSupplies(resp.body)
              IN  IF ~dec.ok THEN [d |-> dd, err |-> "supplies: decode"]
                  ELSE [d |-> [dd EXCEPT !.Supplies = dec.data], err |-> NoErr]
         ELSE [d |-> dd, err |-> "supplies: status"]

\* The date range of a consumption request; n1 and n2 are the two readings of
\* time.Now (n1 for startDate, n2 for endDate).
\* (DateRange_NoLookback: the same with the lookback left out, used to show
\* that C9 rests on the subtraction.)
DateRange_NoLookback(dd, n1, n2) ==
    IF dd.StartDate # <<>> /\ dd.EndDate # <<>>
    THEN [startDate |-> dd.StartDate, endDate |-> dd.EndDate]
    ELSE [startDate |-> FormatDate(n1), endDate |-> FormatDate(n2)]

\* (DateRange_PerBound: each bound explicit when it is configured, used to
\* show that C18 rests on the conjunction of the two tests.)
DateRange_PerBound(dd, n1, n2) ==
    [startDate |-> IF dd.StartDate # <<>> THEN dd.StartDate
                   ELSE FormatDate(n1 - dd.DateDuration),
     endDate |-> IF dd.EndDate # <<>> THEN dd.EndDate ELSE FormatDate(n2)]

DateRange(dd, n1, n2) ==
    IF dd.StartDate # <<>> /\ dd.EndDate # <<>>
    THEN [startDate |-> dd.StartDate, endDate |-> dd.EndDate]
    ELSE [startDate |-> FormatDate(n1 - dd.DateDuration), endDate |-> FormatDate(n2)]

\* The Authorization header of a consumption request (ConsumptionAuth_Stale:
\* a header built without the token, used to show that C10 rests on it).
ConsumptionAuth_Stale(dd) == Bearer("")

ConsumptionAuth(dd) == Bearer(dd.token)

ConsumptionRequest(dd, supply, n1, n2) ==
    LET r == DateRange(dd, n1, n2)
    IN  [kind |-> "GetConsumption", method |-> "GET",
         path |-> "/api-private/api/get-consumption-data", base |-> dd.url,
         cups |-> supply.Cups, distributorCode |-> supply.DistributorCode,
         measurementType |-> dd.MeasurementType, pointType |-> supply.PointType,
         startDate |-> r.startDate, endDate |-> r.endDate,
         auth |-> ConsumptionAuth(dd)]

\* json.NewDecoder(body).Decode(&data) for data []Consumption.
DecodeConsumptions(body) ==
    IF body.json = "garbage" THEN [ok |-> FALSE, data |-> <<>>]
    ELSE IF body.json = "null" THEN [ok |-> TRUE, data |-> <<>>]
    ELSE [ok |-> TRUE, data |-> [i \in 1..Len(body.items) |-> DecodeConsumption(body.items[i])]]

\* fetchConsumption's return values for the response it got.
fetchConsumption(resp) ==
    IF resp.transportErr THEN [data |-> <<>>, err |-> "consumption: transport"]
    ELSE IF resp.status = 200
         THEN LET dec == DecodeConsumptions(resp.body)
              IN  IF ~dec.ok THEN [data |-> <<>>, err |-> "consumption: decode"]
                  ELSE [data |-> dec.data, err |-> NoErr]
         ELSE [data |-> <<>>, err |-> "consumption: status"]

\* fetchConsumption(d Datadis, supply Supply) receives the struct by value
\* and assigns none of its fields: the caller's struct after the call
\* (structAfterFetch_DropToken: the token cleared when the status is not
\* 200, used to show that C15 rests on the struct being left alone).
structAfterFetch_DropToken(dd, resp) ==
    IF ~resp.transportErr /\ resp.status # 200 THEN [dd EXCEPT !.token = ""] ELSE dd

structAfterFetch(dd, resp) == dd

(***************************************************************************)
(* fetchAllConsumptions: the errgroup fan-out                              *)
(***************************************************************************)
NoReq == [kind |-> "none"]

NewTask(supply) ==
    [pc |-> "ready", supply |-> supply, calls |-> 0, req |-> NoReq, data |-> <<>>,
     err |-> NoErr, snap |-> <<>>]

\* errs.Go for every supply of d.Supplies.
SpawnTasks(supplies) == [i \in 1..Len(supplies) |-> NewTask(supplies[i])]

\* append(consumptions, data...) on the slice value the goroutine read.
appendSlice(snap, data) == snap \o data

\* errOnce.Do: the group keeps the first non-nil error.
errOnce(gerr, err) == IF err # NoErr /\ gerr = NoErr THEN err ELSE gerr

\* errs.Wait returns when every goroutine of the group has returned
\* (WaitReturns_First: a Wait that returns with the first goroutine, used to
\* show that C1 rests on waiting for all).
WaitReturns_First(ts) == ts = <<>> \/ \E i \in 1..Len(ts) : ts[i].pc = "done"

WaitReturns(ts) == \A i \in 1..Len(ts) : ts[i].pc = "done"


(***************************************************************************)
(* Gather: initializeClient, the collecting goroutine, aggregateMetrcs     *)
(***************************************************************************)
\* initializeClient creates the HTTP client on first need.
withClient(dd) == [dd EXCEPT !.httpClient = IF @ = Nil THEN "client" ELSE @]

\* initializeClient returns refreshToken's error, and Gather returns it
\* (LoginFailed_Ignored: the error dropped, used to show that C3 rests on it).
LoginFailed_Ignored(err) == FALSE

LoginFailed(err) == err # NoErr

\* initializeClient calls getSupplies only while d.Supplies is nil
\* (NeedsSupplies_Always: the check left out, used to show that C5 rests on it).
NeedsSupplies_Always(dd) == TRUE

NeedsSupplies(dd) == dd.Supplies.nil

\* range d.Supplies: a nil slice has no elements.
SuppliesOf(dd) == dd.Supplies.items

\* Gather's goroutine: on an error of the fan-out it reports the error and
\* leaves metrics empty, otherwise metrics is the fan-out's result
\* (GatherCollect_KeepPartial: the partial result kept, used to show that C6
\* rests on the early return).
GatherCollect_KeepPartial(ret) ==
    [metrics |-> ret.data, errors |-> IF ret.err # NoErr THEN <<ret.err>> ELSE <<>>]

\* (GatherCollect_Silent: the error of the fan-out not handed to acc.AddError,
\* used to show that C12 rests on the report.)
GatherCollect_Silent(ret) ==
    IF ret.err # NoErr THEN [metrics |-> <<>>, errors |-> <<>>]
    ELSE [metrics |-> ret.data, errors |-> <<>>]

GatherCollect(ret) ==
    IF ret.err # NoErr THEN [metrics |-> <<>>, errors |-> <<ret.err>>]
    ELSE [metrics |-> ret.data, errors |-> <<>>]

PointOf(c, unix) ==
    [name |-> "Datadis", tags |-> [cups |-> c.Cups, obtain_method |-> c.ObtainMethod],
     fields |-> [kwh |-> c.KWh], time |-> unix]

SameSeries(p, q) == p.name = q.name /\ p.tags = q.tags /\ p.time = q.time

\* SeriesGrouper.Add: one metric per (name, tags, time); a field added again
\* to a metric replaces its value.
grouperAdd(g, p) ==
    IF \E j \in 1..Len(g) : SameSeries(g[j], p)
    THEN [j \in 1..Len(g) |-> IF SameSeries(g[j], p) THEN [g[j] EXCEPT !.fields = p.fields] ELSE g[j]]
    ELSE Append(g, p)

\* aggregateMetrcs' loop from record i on, with grouper g and errors es: a
\* record whose timestamp does not parse is reported, and the nil *time.Time
\* is then dereferenced for grouper.Add, which panics.
RECURSIVE aggLoop(_, _, _, _)
aggLoop(metrics, i, g, es) ==
    IF i > Len(metrics) THEN [panicked |-> FALSE, grouper |-> g, errors |-> es]
    ELSE LET ts == timestamp(metrics[i])
         IN  IF ~ts.ok
             THEN [panicked |-> TRUE, grouper |-> g, errors |-> Append(es, "timestamp: parse")]
             ELSE aggLoop(metrics, i + 1, grouperAdd(g, PointOf(metrics[i], ts.unix)), es)

\* aggregateMetrcs: the points handed to acc.AddMetric, the errors handed to
\* acc.AddError, the value returned, and whether it panicked instead.
aggregateMetrcs(metrics) ==
    LET r == aggLoop(metrics, 1, <<>>, <<>>)
    IN  IF r.panicked
        THEN [panicked |-> TRUE, points |-> <<>>, errors |-> r.errors, er |-> NoErr]
        ELSE [panicked |-> FALSE, points |-> r.grouper, errors |-> r.errors,
              er |-> IF r.errors = <<>> THEN NoErr ELSE r.errors[Len(r.errors)]]

\* What goes wrong in an exchange, seen from the API's side: the request did
\* not complete or was answered with a status other than 200 (for Login also:
\* the body could not be read), or the body of a 200 is not JSON.
LoginFault(resp) ==
    IF resp.transportErr \/ resp.status # 200 \/ resp.readErr THEN {"login"} ELSE {}

SuppliesFault(resp) ==
    IF resp.transportErr \/ resp.status # 200 THEN {"supplies"}
    ELSE IF resp.body.json = "garbage" THEN {"decode"} ELSE {}

ConsumptionFault(resp) ==
    IF resp.transportErr \/ resp.status # 200 THEN {"consumption"}
    ELSE IF resp.body.json = "garbage" THEN {"decode"} ELSE {}

\* time.Parse fails on one of the records aggregateMetrcs is called with.
ParseFault(metrics) ==
    IF \E i \in 1..Len(metrics) : ~timestamp(metrics[i]).ok THEN {"parse"} ELSE {}

(***************************************************************************)
(* Initial state                                                           *)
(***************************************************************************)
RollingDates == [StartDate |-> <<>>, EndDate |-> <<>>]

ExplicitDates == [StartDate |-> D_START, EndDate |-> D_END]

NewDatadis(supplies, dates, duration) ==
    [url |-> URL, token |-> "", httpClient |-> Nil, Supplies |-> supplies,
     StartDate |-> dates.StartDate, EndDate |-> dates.EndDate,
     DateDuration |-> duration, MeasurementType |-> 0]

\* The configurations Gather is studied under: supplies to be discovered and
\* the default lookback of 168h, or a static supply list and explicit dates.
InitialStructs ==
    { NewDatadis(NilSlice, RollingDates, HoursOf(168)),
      NewDatadis(StaticSupplies, ExplicitDates, HoursOf(168)) }

MainInit(structs) ==
    /\ d \in structs
    /\ cfgStatic = ~d.Supplies.nil
    /\ now = Now0
    /\ pc = "idle"
    /\ cycle = 0
    /\ sent = <<>>
    /\ loginStatus = 0
    /\ tasks = <<>>
    /\ consumptions = <<>>
    /\ groupErr = NoErr
    /\ faRet = NotReturned
    /\ acc = EmptyAcc
    /\ gatherRet = Running
    /\ srvToken = Nil
    /\ nLogin = 0
    /\ nList = 0
    /\ listOK = "never"
    /\ faults = {}

Init == MainInit(InitialStructs) /\ pin = NoInput /\ pout = NoOutput

(***************************************************************************)
(* Actions                                                                 *)
(***************************************************************************)
\* Gather is called: initializeClient up to the end of refreshToken.
GatherLogin ==
    /\ pc = "idle"
    /\ cycle < MaxCycles
    /\ \E resp \in LoginResponses :
         LET d1 == withClient(d)
             r  == refreshToken(d1, resp)
         IN  /\ d' = r.d
             /\ sent' = <<LoginRequest(d1)>>
             /\ faults' = LoginFault(resp)
             /\ nLogin' = nLogin + 1
             /\ loginStatus' = IF resp.transportErr THEN 0 ELSE resp.status
             /\ srvToken' = IF ~resp.transportErr /\ resp.status = 200
                            THEN resp.body ELSE srvToken
             /\ IF LoginFailed(r.err)
                THEN pc' = "idle" /\ gatherRet' = r.err
                ELSE pc' = "supplies" /\ gatherRet' = Running
    /\ now' = now + GatherInterval
    /\ cycle' = cycle + 1
    /\ tasks' = <<>>
    /\ consumptions' = <<>>
    /\ groupErr' = NoErr
    /\ faRet' = NotReturned
    /\ acc' = EmptyAcc
    /\ UNCHANGED <<nList, listOK, cfgStatic, pin, pout>>

\* The rest of initializeClient, and fetchAllConsumptions' errs.Go loop.
GatherSupplies ==
    /\ pc = "supplies"
    /\ IF NeedsSupplies(d)
       THEN \E resp \in SuppliesResponses :
              LET r == getSupplies(d, resp)
              IN  /\ d' = r.d
                  /\ sent' = Append(sent, SuppliesRequest(d))
                  /\ nList' = nList + 1
                  /\ faults' = faults \cup SuppliesFault(resp)
                  /\ listOK' = IF r.err = NoErr THEN resp.body.json ELSE listOK
                  /\ IF r.err # NoErr
                     THEN pc' = "idle" /\ gatherRet' = r.err /\ tasks' = <<>>
                     ELSE pc' = "fanout" /\ gatherRet' = Running
                          /\ tasks' = SpawnTasks(SuppliesOf(r.d))
       ELSE /\ pc' = "fanout"
            /\ tasks' = SpawnTasks(SuppliesOf(d))
            /\ UNCHANGED <<d, sent, nList, listOK, gatherRet, faults>>
    /\ UNCHANGED <<now, cycle, loginStatus, consumptions, groupErr, faRet, acc,
                   srvToken, nLogin, cfgStatic, pin, pout>>

\* A goroutine of the group calls fetchConsumption(*d, supply): the request
\* is built from the struct and the clock and sent, and the goroutine waits
\* in httpClient.Do for the answer.
TaskSend(i) ==
    /\ pc = "fanout"
    /\ tasks[i].pc = "ready"
    /\ tasks' = [tasks EXCEPT ![i] =
                    [@ EXCEPT !.pc = "waiting", !.calls = @ + 1,
                              !.req = ConsumptionRequest(d, tasks[i].supply, now, now)]]
    /\ UNCHANGED <<d, now, pc, cycle, sent, loginStatus, consumptions, groupErr, faRet,
                   acc, gatherRet, srvToken, nLogin, nList, listOK, cfgStatic, faults,
                   pin, pout>>

\* The answer arrives: fetchConsumption returns data and err.
TaskFetch(i) ==
    /\ pc = "fanout"
    /\ tasks[i].pc = "waiting"
    /\ \E resp \in ConsumptionResponses(tasks[i].supply) :
         LET r == fetchConsumption(resp)
         IN  /\ tasks' = [tasks EXCEPT ![i] =
                             [@ EXCEPT !.pc = "fetched", !.data = r.data, !.err = r.err]]
             /\ faults' = faults \cup ConsumptionFault(resp)
             /\ d' = structAfterFetch(d, resp)
    /\ UNCHANGED <<now, pc, cycle, sent, loginStatus, consumptions, groupErr, faRet,
                   acc, gatherRet, srvToken, nLogin, nList, listOK, cfgStatic, pin, pout>>

\* It reads the shared slice to evaluate append(consumptions, data...).
TaskLoad(i) ==
    /\ pc = "fanout"
    /\ tasks[i].pc = "fetched"
    /\ tasks' = [tasks EXCEPT ![i] = [@ EXCEPT !.pc = "loaded", !.snap = consumptions]]
    /\ UNCHANGED <<d, now, pc, cycle, sent, loginStatus, consumptions, groupErr, faRet,
                   acc, gatherRet, srvToken, nLogin, nList, listOK, cfgStatic, faults, pin, pout>>

\* It assigns the appended slice; the slice value it had read is a temporary
\* of the expression and is gone.
TaskStore(i) ==
    /\ pc = "fanout"
    /\ tasks[i].pc = "loaded"
    /\ consumptions' = appendSlice(tasks[i].snap, tasks[i].data)
    /\ tasks' = [tasks EXCEPT ![i] = [@ EXCEPT !.pc = "stored", !.snap = <<>>]]
    /\ UNCHANGED <<d, now, pc, cycle, sent, loginStatus, groupErr, faRet, acc, gatherRet,
                   srvToken, nLogin, nList, listOK, cfgStatic, faults, pin, pout>>

\* It returns err, and the group's errOnce.Do keeps it if it is the first.
TaskReturn(i) ==
    /\ pc = "fanout"
    /\ tasks[i].pc = "stored"
    /\ groupErr' = errOnce(groupErr, tasks[i].err)
    /\ tasks' = [tasks EXCEPT ![i] = [@ EXCEPT !.pc = "returned"]]
    /\ UNCHANGED <<d, now, pc, cycle, sent, loginStatus, consumptions, faRet, acc,
                   gatherRet, srvToken, nLogin, nList, listOK, cfgStatic, faults, pin, pout>>

\* The group's deferred wg.Done for the goroutine.
TaskDone(i) ==
    /\ pc = "fanout"
    /\ tasks[i].pc = "returned"
    /\ tasks' = [tasks EXCEPT ![i] = [@ EXCEPT !.pc = "done"]]
    /\ UNCHANGED <<d, now, pc, cycle, sent, loginStatus, consumptions, groupErr, faRet,
                   acc, gatherRet, srvToken, nLogin, nList, listOK, cfgStatic, faults,
                   pin, pout>>

\* errs.Wait returns; Gather's goroutine collects; aggregateMetrcs runs and
\* Gather returns its value, or the process panics.
GatherFinish ==
    /\ pc = "fanout"
    /\ WaitReturns(tasks)
    /\ LET ret == [returned |-> TRUE, data |-> consumptions, err |-> groupErr]
           col == GatherCollect(ret)
           agg == aggregateMetrcs(col.metrics)
       IN  /\ faRet' = ret
           /\ acc' = [metrics |-> agg.points, errors |-> col.errors \o agg.errors]
           /\ faults' = faults \cup ParseFault(col.metrics)
           /\ IF agg.panicked
              THEN pc' = "panicked" /\ gatherRet' = Running
              ELSE pc' = "idle" /\ gatherRet' = agg.er
    /\ UNCHANGED <<d, now, cycle, sent, loginStatus, tasks, consumptions, groupErr,
                   srvToken, nLogin, nList, listOK, cfgStatic, pin, pout>>

Next ==
    \/ GatherLogin
    \/ GatherSupplies
    \/ \E i \in 1..Len(tasks) : TaskSend(i)
    \/ \E i \in 1..Len(tasks) : TaskFetch(i)
    \/ \E i \in 1..Len(tasks) : TaskLoad(i)
    \/ \E i \in 1..Len(tasks) : TaskStore(i)
    \/ \E i \in 1..Len(tasks) : TaskReturn(i)
    \/ \E i \in 1..Len(tasks) : TaskDone(i)
    \/ GatherFinish

Spec == Init /\ [][Next]_vars


(***************************************************************************)
(* Consumption.timestamp on its own: SpecTime                              *)
(***************************************************************************)
DateText(y, m, dd) == Pad4(y) \o <<"/">> \o Pad2(m) \o <<"/">> \o Pad2(dd)

ClockText(hh, mi) == Pad2(hh) \o <<":">> \o Pad2(mi)

\* Valid dates and times of day, the hour 24 of the API included.
TimeInputs ==
    { [kind |-> "time", y |-> y, m |-> m, dd |-> dd, hh |-> hh, mi |-> mi,
       Date |-> DateText(y, m, dd), Time |-> ClockText(hh, mi)] :
        y \in {1970, 2000, 2021, 2024}, m \in {1, 2, 12}, dd \in {1, 28, 29, 31},
        hh \in {0, 1, 12, 23, 24}, mi \in {0, 15, 59} }

InitTime ==
    /\ MainInit({NewDatadis(StaticSupplies, RollingDates, HoursOf(168))})
    /\ pin \in {i \in TimeInputs : i.dd <= daysIn(i.m, i.y)}
    /\ pout = NoOutput

ApplyTimestamp ==
    /\ ~pout.done
    /\ pout' = [done |-> TRUE,
                ts |-> timestamp([Cups |-> "ES1", Date |-> pin.Date, Time |-> pin.Time,
                                  KWh |-> 117, ObtainMethod |-> "Real"])]
    /\ UNCHANGED <<mainVars, pin>>

NextTime == ApplyTimestamp

SpecTime == InitTime /\ [][NextTime]_vars

(***************************************************************************)
(* fetchConsumption's request on its own: SpecFetch                        *)
(***************************************************************************)
AllDateConfigs ==
    { [StartDate |-> a, EndDate |-> b] : a \in {<<>>, D_START}, b \in {<<>>, D_END} }

\* Instants at which time.Now is first read, and how much later it is read
\* again for endDate.
FetchClock ==
    { Now0, UnixOf(2021, 12, 31, 23, 59), UnixOf(2022, 1, 1, 0, 0),
      UnixOf(2024, 3, 1, 0, 30), UnixOf(2021, 3, 1, 12, 0) }

FetchInputs ==
    { [kind |-> "fetch", dates |-> dc, duration |-> du, now1 |-> n, lag |-> l] :
        dc \in AllDateConfigs, du \in {HoursOf(0), HoursOf(24), HoursOf(168)},
        n \in FetchClock, l \in {0, 1, 60} }

InitFetch ==
    /\ MainInit({NewDatadis(StaticSupplies, RollingDates, HoursOf(168))})
    /\ pin \in FetchInputs
    /\ pout = NoOutput

ApplyFetch ==
    /\ ~pout.done
    /\ pout' = [done |-> TRUE,
                req |-> ConsumptionRequest(
                            [NewDatadis(StaticSupplies, pin.dates, pin.duration)
                                EXCEPT !.token = "t0k3n"],
                            StaticSupplies.items[1], pin.now1, pin.now1 + pin.lag)]
    /\ UNCHANGED <<mainVars, pin>>

NextFetch == ApplyFetch

SpecFetch == InitFetch /\ [][NextFetch]_vars


(***************************************************************************)
(* Properties                                                              *)
(***************************************************************************)
TaskIds == 1..Len(tasks)

Failed(i) == tasks[i].err # NoErr

\* The bag of the elements of a sequence.
RECURSIVE SeqBag(_)
SeqBag(q) == IF q = <<>> THEN EmptyBag ELSE SetToBag({q[1]}) (+) SeqBag(Tail(q))

\* The records returned by the fetches of tasks i..n that succeeded.
RECURSIVE FetchedFrom(_)
FetchedFrom(i) ==
    IF i > Len(tasks) THEN <<>>
    ELSE (IF Failed(i) THEN <<>> ELSE tasks[i].data) \o FetchedFrom(i + 1)

\* The requests of the current cycle that carry an Authorization header.
AuthorizedRequests ==
    {sent[k] : k \in {j \in 1..Len(sent) : sent[j].kind # "Login"}}
    \cup {tasks[i].req : i \in {j \in TaskIds : tasks[j].req.kind # "none"}}

\* C1: when fetchAllConsumptions has returned, there is one task per supply of
\* the supply list, every task has finished and made exactly one fetch, for
\* its own supply; and if a task failed, the error returned is non-nil and is
\* the error of a failed task.
C1_FanOutWaitsForAll ==
    faRet.returned =>
        /\ Len(tasks) = Len(SuppliesOf(d))
        /\ \A i \in TaskIds :
              /\ tasks[i].pc = "done"
              /\ tasks[i].calls = 1
              /\ tasks[i].supply = SuppliesOf(d)[i]
              /\ tasks[i].req.kind = "GetConsumption"
              /\ tasks[i].req.cups = SuppliesOf(d)[i].Cups
        /\ (\E i \in TaskIds : Failed(i)) =>
              /\ faRet.err # NoErr
              /\ \E i \in TaskIds : Failed(i) /\ tasks[i].err = faRet.err

\* A fan-out over two supplies has returned: one fetch failed, the other
\* returned records.
C1_Witness ==
    /\ faRet.returned
    /\ Len(tasks) = 2
    /\ \E i, j \in TaskIds : Failed(i) /\ ~Failed(j) /\ tasks[j].data # <<>>
    /\ faRet.err # NoErr

\* C2: the collection fetchAllConsumptions returns holds, as a multiset,
\* exactly the records of the fetches that succeeded.
C2_NoRecordLost ==
    faRet.returned => SeqBag(faRet.data) = SeqBag(FetchedFrom(1))

\* C3: a Login response with a status other than 200 ends the cycle: Gather
\* has returned an error, and the cycle has sent neither List Supplies nor
\* Get Consumption and has handed no point to the sink.
C3_LoginFailureAbortsCycle ==
    (loginStatus # 0 /\ loginStatus # 200) =>
        /\ pc = "idle"
        /\ gatherRet # Running /\ gatherRet # NoErr
        /\ \A k \in 1..Len(sent) : sent[k].kind = "Login"
        /\ tasks = <<>>
        /\ acc.metrics = <<>>

\* A second cycle whose Login was answered 401 although a token was held.
C3_Witness ==
    /\ cycle = 2
    /\ loginStatus = 401
    /\ d.token = "t0k3n"
    /\ gatherRet = "login: status"

\* C4: a step sends a Login request only when the held token is empty, and a
\* non-empty token is never replaced.
C4_LazyLogin ==
    [][ /\ (nLogin' # nLogin => d.token = "")
        /\ (d.token # "" => d'.token = d.token) ]_vars

\* C5 as stated: with a static list no List Supplies is ever sent, and once a
\* List Supplies call has succeeded none is sent again and the list is kept.
C5_DiscoveryOnce ==
    [][ /\ (cfgStatic => nList' = nList)
        /\ (listOK # "never" => (nList' = nList /\ d'.Supplies = d.Supplies)) ]_vars

\* C5 as amended: with a static list no List Supplies is ever sent, and once a
\* List Supplies call has succeeded with a JSON array as its body (an empty
\* one included) none is sent again and the list is kept.
C5_DiscoveryOnceArray ==
    [][ /\ (cfgStatic => nList' = nList)
        /\ (listOK = "array" => (nList' = nList /\ d'.Supplies = d.Supplies)) ]_vars

\* A second cycle has run to its end on the empty list that the only List
\* Supplies call discovered.
C5_Witness ==
    /\ cycle = 2
    /\ pc = "idle"
    /\ gatherRet = NoErr
    /\ listOK = "array"
    /\ d.Supplies = Slice(<<>>)
    /\ nList = 1

\* C6: while a fetch of the cycle has failed, the sink holds no point of the
\* cycle.
C6_FailureDiscardsAll ==
    (\E i \in TaskIds : Failed(i)) => acc.metrics = <<>>

\* Gather has returned from a cycle in which one fetch failed and the fan-out
\* still returned records of another.
C6_Witness ==
    /\ pc = "idle"
    /\ faRet.returned
    /\ faRet.data # <<>>
    /\ \E i \in TaskIds : Failed(i)
    /\ gatherRet # Running

\* The first record of a sequence whose timestamp does not parse, 0 if none.
FirstUnparseable(q) ==
    LET bad == {k \in 1..Len(q) : ~timestamp(q[k]).ok}
    IN  IF bad = {} THEN 0 ELSE CHOOSE k \in bad : \A j \in bad : k <= j

\* C7: when a record handed to aggregateMetrcs has a timestamp that does not
\* parse, Gather returns an error, and the points of the records before it
\* are in the sink.
C7_ParseErrorKeepsEarlierPoints ==
    (faRet.returned /\ faRet.err = NoErr /\ FirstUnparseable(faRet.data) # 0) =>
        /\ pc = "idle"
        /\ gatherRet # Running /\ gatherRet # NoErr
        /\ \A j \in 1..(FirstUnparseable(faRet.data) - 1) :
              \E k \in 1..Len(acc.metrics) :
                  acc.metrics[k] = PointOf(faRet.data[j], timestamp(faRet.data[j]).unix)

\* Days from 1970-01-01 to y-m-d, counted year by year and month by month.
RECURSIVE DaysBeforeYear(_)
DaysBeforeYear(y) ==
    IF y <= 1970 THEN 0 ELSE DaysBeforeYear(y - 1) + (IF isLeap(y - 1) THEN 366 ELSE 365)

RECURSIVE DaysBeforeMonth(_, _)
DaysBeforeMonth(y, m) == IF m <= 1 THEN 0 ELSE DaysBeforeMonth(y, m - 1) + daysIn(m - 1, y)

DayNumber(y, m, dd) == DaysBeforeYear(y) + DaysBeforeMonth(y, m) + dd - 1

\* C8: for a valid date and time of day, timestamp succeeds; with an hour
\* other than 24 it is the direct parse of date + " " + time, and with hour
\* 24 it is 00:MM of the same calendar date (1640649600 for 2021/12/28 24:00).
C8_Timestamp ==
    pout.done =>
        /\ pout.ts.ok
        /\ pout.ts.unix = DayNumber(pin.y, pin.m, pin.dd) * 86400
                            + (IF pin.hh = 24 THEN 0 ELSE pin.hh) * 3600 + pin.mi * 60
        /\ pin.hh # 24 => pout.ts = ParseTime(SprintfPair(pin.Date, pin.Time))
        /\ (pin.Date = D_1228 /\ pin.Time = T_2400) => pout.ts.unix = 1640649600

\* timestamp has been applied to 2021/12/28 24:00.
C8_Witness ==
    /\ pout.done
    /\ pin.Date = D_1228
    /\ pin.Time = T_2400
    /\ pout.ts.unix = 1640649600

\* The day (00:00 UTC, in seconds) that a YYYY/MM/DD text names, -1 if it
\* names none.
DayOfText(txt) ==
    LET r == ParseTime(SprintfPair(txt, T_0000))
    IN  IF Len(txt) = 10 /\ r.ok THEN r.unix ELSE -1

StartOfDay(t) == (t \div 86400) * 86400

\* C9: with both explicit dates configured the request carries exactly them;
\* with none configured startDate names the day of (now - date_duration) and
\* endDate the day of now, as YYYY/MM/DD.
C9_DateRange ==
    pout.done =>
        /\ (pin.dates.StartDate # <<>> /\ pin.dates.EndDate # <<>>) =>
              /\ pout.req.startDate = pin.dates.StartDate
              /\ pout.req.endDate = pin.dates.EndDate
        /\ (pin.dates.StartDate = <<>> /\ pin.dates.EndDate = <<>>) =>
              /\ DayOfText(pout.req.startDate) = StartOfDay(pin.now1 - pin.duration)
              /\ DayOfText(pout.req.endDate) = StartOfDay(pin.now1 + pin.lag)
              /\ pout.req.startDate = FormatDate(pin.now1 - pin.duration)
              /\ pout.req.endDate = FormatDate(pin.now1 + pin.lag)

\* A request built at 2024/03/01 00:30 with a lookback of 24 hours and no
\* explicit dates: it starts on the leap day.
C9_Witness ==
    /\ pout.done
    /\ pin.dates.StartDate = <<>> /\ pin.dates.EndDate = <<>>
    /\ pin.duration = HoursOf(24)
    /\ pout.req.startDate = <<"2", "0", "2", "4", "/", "0", "2", "/", "2", "9">>
    /\ pout.req.endDate = <<"2", "0", "2", "4", "/", "0", "3", "/", "0", "1">>

\* C10: every List Supplies and Get Consumption request of the cycle carries
\* Authorization: Bearer <body of the latest Login response with status 200>.
C10_BearerIsLatestLogin ==
    \A r \in AuthorizedRequests : srvToken # Nil /\ r.auth = "Bearer " \o srvToken

\* In a second cycle, whose Login returned another token than the first, the
\* List Supplies request and the fetch of every task carry the new token.
C10_Witness ==
    /\ cycle = 2
    /\ srvToken = "s3cr3t"
    /\ \E k \in 1..Len(sent) : sent[k].kind = "ListSupplies" /\ sent[k].auth = "Bearer s3cr3t"
    /\ Len(tasks) = 2
    /\ \A i \in TaskIds : tasks[i].req.kind = "GetConsumption" /\ tasks[i].req.auth = "Bearer s3cr3t"

(***************************************************************************)
(* C11, C12                                                                *)
(***************************************************************************)
\* What identifies a point at the sink: its tags and its timestamp.
KeyOf(p) == [tags |-> p.tags, time |-> p.time]

\* The keys of the records of q whose timestamp parses.
RecordKeys(q) ==
    { KeyOf(PointOf(q[i], timestamp(q[i]).unix)) :
        i \in { j \in 1..Len(q) : timestamp(q[j]).ok } }

PointKeys == { KeyOf(acc.metrics[i]) : i \in 1..Len(acc.metrics) }

\* C11: no two points the sink received in a cycle have the same tags and the
\* same timestamp, and in a cycle that ran to its end with nothing failing
\* the sink received a point for each distinct (cups, obtain_method,
\* timestamp) among the records the fetches returned, and for nothing else.
C11_OnePointPerSeries ==
    /\ \A i, j \in 1..Len(acc.metrics) :
          i # j => KeyOf(acc.metrics[i]) # KeyOf(acc.metrics[j])
    /\ (pc = "idle" /\ faRet.returned /\ faults = {})
          => PointKeys = RecordKeys(FetchedFrom(1))

\* The cycle has ended: Gather returned, or the process panicked.
CycleEnded == cycle > 0 /\ pc \in {"idle", "panicked"}

\* C12: a cycle in which a Login, List Supplies or Get Consumption exchange
\* failed, a body did not decode or a timestamp did not parse ends with an
\* error returned by Gather or handed to acc.AddError.
C12_FailureIsReported ==
    (CycleEnded /\ faults # {})
        => (gatherRet \notin {NoErr, Running} \/ acc.errors # <<>>)

\* Gather returned nil in a cycle with a failed Get Consumption, and the
\* accumulator holds the error.
C12_Witness ==
    /\ pc = "idle" /\ cycle > 0
    /\ faults = {"consumption"}
    /\ gatherRet = NoErr
    /\ acc.errors # <<>>

(***************************************************************************)
(* C13                                                                     *)
(***************************************************************************)
\* C13: a failed Login leaves the token as it was and every Gather issues
\* Login; a failed List Supplies (status or body) leaves the supply list as it
\* was and a Gather that comes to the supplies step with no list issues List
\* Supplies; and after a cycle in which something failed the collector is
\* idle again, ready for the next Gather.
C13_FailedCycleRetries ==
    [][ /\ (cycle' = cycle + 1 /\ "login" \in faults') => d'.token = d.token
        /\ (cycle' = cycle + 1) => nLogin' = nLogin + 1
        /\ (nList' = nList + 1 /\ faults' \cap {"supplies", "decode"} # {})
              => d'.Supplies = d.Supplies
        /\ (pc = "supplies" /\ d.Supplies.nil) => nList' = nList + 1
        /\ (CycleEnded' /\ faults' # {}) => pc' = "idle" ]_vars

(***************************************************************************)
(* C14                                                                     *)
(***************************************************************************)
\* C14: within a cycle a List Supplies request is sent only after the Login
\* of the cycle has succeeded; a Get Consumption request is sent only after
\* that and for a supply of the resolved list; and the sink holds a point
\* only after errs.Wait returned with every goroutine of the fan-out done.
C14_StepsInOrder ==
    /\ \A k \in 1..Len(sent) :
          sent[k].kind = "ListSupplies"
            => (k > 1 /\ sent[1].kind = "Login" /\ loginStatus = 200
                /\ "login" \notin faults)
    /\ \A i \in TaskIds :
          tasks[i].calls > 0
            => (/\ "login" \notin faults /\ loginStatus = 200
                /\ ~d.Supplies.nil
                /\ \E k \in 1..Len(d.Supplies.items) :
                      d.Supplies.items[k] = tasks[i].supply)
    /\ acc.metrics # <<>>
          => (faRet.returned /\ \A i \in TaskIds : tasks[i].pc = "done")

\* A cycle that discovered two supplies, fetched both and emitted points.
C14_Witness ==
    /\ Len(sent) = 2 /\ sent[2].kind = "ListSupplies"
    /\ Len(tasks) = 2
    /\ \A i \in TaskIds : tasks[i].calls = 1 /\ tasks[i].pc = "done"
    /\ Len(acc.metrics) >= 2

(***************************************************************************)
(* C15                                                                     *)
(***************************************************************************)
\* C15: from the start of the fan-out to the return of errs.Wait no step
\* changes the Datadis struct (token, supply list, base URL, measurement
\* type, dates and lookback), and a step of a goroutine changes nothing the
\* goroutines share but the result slice and the group's error: not the
\* requests of the Gather goroutine, the accumulator or Gather's result.
C15_FanOutLeavesStructAlone ==
    [][ pc = "fanout"
          => /\ d' = d
             /\ (pc' = "fanout"
                   => UNCHANGED <<sent, acc, gatherRet, faRet, loginStatus,
                                  srvToken, nLogin, nList, listOK, now, cycle>>) ]_vars

\* The fan-out over two supplies returned, one fetch failed with a status,
\* the other brought records, and the struct still holds the cycle's token
\* and both supplies.
C15_Witness ==
    /\ faRet.returned
    /\ Len(tasks) = 2
    /\ \E i, j \in TaskIds : tasks[i].err = "consumption: status" /\ tasks[j].data # <<>>
    /\ d.token = srvToken /\ d.token # ""
    /\ Len(d.Supplies.items) = 2

(***************************************************************************)
(* C16                                                                     *)
(***************************************************************************)
\* C16: in a cycle that has ended, in which every fetch succeeded and every
\* fetched record's timestamp parses, each fetched record has its point in
\* the sink (named Datadis, tagged with the record's cups and obtain method,
\* with the single field kwh of the record's value, at the record's
\* timestamp), and each point in the sink is the point of a fetched record.
C16_PointsAreTheRecords ==
    LET F == FetchedFrom(1)
    IN  (/\ pc = "idle" /\ faRet.returned
         /\ \A i \in TaskIds : ~Failed(i)
         /\ FirstUnparseable(F) = 0)
          => /\ \A j \in 1..Len(F) :
                   \E k \in 1..Len(acc.metrics) :
                       acc.metrics[k] = PointOf(F[j], timestamp(F[j]).unix)
             /\ \A k \in 1..Len(acc.metrics) :
                   \E j \in 1..Len(F) :
                       acc.metrics[k] = PointOf(F[j], timestamp(F[j]).unix)

(***************************************************************************)
(* C17                                                                     *)
(***************************************************************************)
\* The Gather under way has a step to take: the supplies step, a step of a
\* goroutine of the fan-out that is not done, or the return of errs.Wait.
CanStep ==
    \/ pc = "supplies"
    \/ pc = "fanout" /\ ((\E i \in TaskIds : tasks[i].pc # "done") \/ WaitReturns(tasks))

\* C17: a Gather that has been called and has not returned is never aborted
\* by a panic and never hangs: as every request returns, there is a next
\* step for it to take (a cycle has at most 2 + 6 * supplies + 1 steps, so it
\* then returns).
C17_GatherReturns ==
    pc # "idle" => (pc # "panicked" /\ CanStep)

(***************************************************************************)
(* C18                                                                     *)
(***************************************************************************)
\* Exactly one of start_date and end_date is configured.
OneDateOnly == (pin.dates.StartDate = <<>>) # (pin.dates.EndDate = <<>>)

\* C18: when exactly one of start_date and end_date is configured, the
\* request carries the rolling range in both parameters (startDate the day
\* of now minus the lookback, endDate the day of now), whatever the
\* configured date is; in every case the two parameters are either the two
\* configured dates, both being configured, or the two rolling dates.
C18_ExplicitOnlyWhenBoth ==
    LET rolling == /\ DayOfText(pout.req.startDate) = StartOfDay(pin.now1 - pin.duration)
                   /\ DayOfText(pout.req.endDate) = StartOfDay(pin.now1 + pin.lag)
        explicit == /\ pin.dates.StartDate # <<>> /\ pin.dates.EndDate # <<>>
                    /\ pout.req.startDate = pin.dates.StartDate
                    /\ pout.req.endDate = pin.dates.EndDate
    IN  pout.done =>
            /\ OneDateOnly => rolling
            /\ explicit \/ rolling

\* Only start_date is configured, and the request built at 2021/12/31 18:00
\* with a lookback of 168 hours runs from 2021/12/24 to 2021/12/31.
C18_Witness ==
    /\ pout.done
    /\ pin.dates.StartDate = D_START /\ pin.dates.EndDate = <<>>
    /\ pin.now1 = Now0 /\ pin.duration = HoursOf(168)
    /\ pout.req.startDate = <<"2", "0", "2", "1", "/", "1", "2", "/", "2", "4">>
    /\ pout.req.endDate = <<"2", "0", "2", "1", "/", "1", "2", "/", "3", "1">>

====
